---------------------------- MODULE Spec2Model ----------------------------
(* The B-tree node layer of toastsandwich/my-database: the byte layout of  *)
(* a node inside a page buffer (package bnode) and the copy-on-write       *)
(* builders and the navigator that work on it.                             *)
(*                                                                         *)
(* A buffer is the Go slice n.Data, modelled as the sequence of its bytes: *)
(* byte pos of the slice is element pos + 1 of the sequence.  Every uint16 *)
(* expression of the source is computed modulo 2^16.  A Go panic (a failed *)
(* utils.Assert, a slice or index out of range) ends the run: ok becomes   *)
(* FALSE and no operation follows.                                         *)
EXTENDS Integers, Sequences, FiniteSets, TLC

VARIABLES
    new,    \* the destination buffer of the builders (BNode.Data)
    old,    \* the source node the builders and the readers work on
    ok,     \* FALSE once a call has panicked
    call,   \* the last call made: its name, arguments and results
    fills,  \* the entries passed to the slot fills of new, in call order
    hdr,    \* the key count SetHeader was last given, or -1
    ncalls  \* the number of builder calls made on new

vars == <<new, old, ok, call, fills, hdr, ncalls>>

----------------------------------------------------------------------------
(* Program constants (consts/consts.go).                                   *)
BNODE_BNODE == 1
BNODE_BLEAF == 2
HEADER == 4
BTREE_PAGE_SIZE == 4096

(* Bounds of the model.                                                    *)
MaxNKeys == 3      \* largest key count a destination buffer is handed in with
MaxOldKeys == 2    \* largest key count of a source node of the builders
MaxNavKeys == 3    \* largest key count of a node the navigator searches
MaxKeyLen == 2     \* longest key
MaxValLen == 1     \* longest value
MaxCalls == 2      \* builder calls made on one destination buffer
DataLen == 80      \* len(n.Data) and cap(n.Data), the bytes of a buffer

----------------------------------------------------------------------------
(* Machine arithmetic and the results of a panicking read.                 *)
U16(x) == ((x % 65536) + 65536) % 65536

PANIC == 0 - 1         \* a uint16 read that panicked
NoPtr == <<>>          \* a uint64 read that panicked
NoBytes == <<-1>>      \* a []byte read that panicked

(* utils.Assert(cond): fatal when cond is false.                           *)
AssertFails(cond) == ~cond

ZeroData == [i \in 1..DataLen |-> 0]

(* d[pos], for pos < len(d).                                               *)
At(d, pos) == d[pos + 1]

(* A uint64 is kept as its four 16-bit limbs, least significant first.     *)
ZeroPtr == <<0, 0, 0, 0>>
SomePtr == <<772, 258, 5, 1>>

(* binary.LittleEndian.Uint16(d[pos:]).                                    *)
Uint16(d, pos) ==
    IF pos = PANIC \/ pos + 2 > DataLen THEN PANIC
    ELSE At(d, pos) + 256 * At(d, pos + 1)

(* binary.LittleEndian.Uint64(d[pos:]).                                    *)
Uint64(d, pos) ==
    IF pos = PANIC \/ pos + 8 > DataLen THEN NoPtr
    ELSE [w \in 1..4 |-> At(d, pos + 2 * (w - 1)) + 256 * At(d, pos + 2 * (w - 1) + 1)]

----------------------------------------------------------------------------
(* Node Codec: the read accessors.                                         *)
BType(d) == Uint16(d, 0)

NKeys(d) == Uint16(d, 2)

GetPtr(d, idx) ==
    IF AssertFails(idx < NKeys(d)) THEN NoPtr
    ELSE Uint64(d, U16(HEADER + 8 * idx))

OffsetPos(d, idx) ==
    IF AssertFails(1 <= idx /\ idx <= NKeys(d)) THEN PANIC
    ELSE U16(HEADER + 8 * NKeys(d) + 2 * (idx - 1))

GetOffset(d, idx) ==
    IF idx = 0 THEN 0 ELSE Uint16(d, OffsetPos(d, idx))

(* KVPos without the room of the offset list.                              *)
KVPosNoOffsetList(d, idx) ==
    IF AssertFails(idx <= NKeys(d)) THEN PANIC
    ELSE LET off == GetOffset(d, idx)
         IN  IF off = PANIC THEN PANIC
             ELSE U16(HEADER + 8 * NKeys(d) + off)

KVPos(d, idx) ==
    IF AssertFails(idx <= NKeys(d)) THEN PANIC
    ELSE LET off == GetOffset(d, idx)
         IN  IF off = PANIC THEN PANIC
             ELSE U16(HEADER + 8 * NKeys(d) + 2 * NKeys(d) + off)

(* d[from:][:len]: the len bytes that start at from.                       *)
Slice(d, from, len) ==
    IF from > DataLen \/ len > DataLen - from THEN NoBytes
    ELSE [i \in 1..len |-> At(d, from + i - 1)]

GetKey(d, idx) ==
    IF AssertFails(idx <= NKeys(d)) THEN NoBytes
    ELSE LET pos == KVPos(d, idx)
             klen == Uint16(d, pos)
         IN  IF pos = PANIC \/ klen = PANIC THEN NoBytes
             ELSE Slice(d, U16(pos + 4), klen)

GetVal(d, idx) ==
    IF AssertFails(idx <= NKeys(d)) THEN NoBytes
    ELSE LET pos == KVPos(d, idx)
             klen == Uint16(d, pos)
             vlen == Uint16(d, U16(pos + 2))
         IN  IF pos = PANIC \/ klen = PANIC \/ vlen = PANIC THEN NoBytes
             ELSE Slice(d, U16(pos + 4 + klen), vlen)

Nbyte(d) == KVPos(d, NKeys(d))

----------------------------------------------------------------------------
(* The writers work on a machine m = [ok, new, old]: the two buffers of a  *)
(* builder call and whether the call is still running.  b names the buffer *)
(* written.  A writer that panics leaves the bytes written so far.         *)
Machine(n, o) == [ok |-> TRUE, new |-> n, old |-> o]

Panic(m) == [m EXCEPT !.ok = FALSE]

(* binary.LittleEndian.PutUint16(m[b][pos:], v).                           *)
PutUint16(m, b, pos, v) ==
    IF ~m.ok THEN m
    ELSE IF pos = PANIC \/ v = PANIC \/ pos + 2 > DataLen THEN Panic(m)
    ELSE [m EXCEPT ![b] = [@ EXCEPT ![pos + 1] = v % 256, ![pos + 2] = v \div 256]]

(* binary.LittleEndian.PutUint64(m[b][pos:], v).                           *)
PutUint64(m, b, pos, v) ==
    IF ~m.ok THEN m
    ELSE IF pos = PANIC \/ v = NoPtr \/ pos + 8 > DataLen THEN Panic(m)
    ELSE [m EXCEPT ![b] = [@ EXCEPT
            ![pos + 1] = v[1] % 256, ![pos + 2] = v[1] \div 256,
            ![pos + 3] = v[2] % 256, ![pos + 4] = v[2] \div 256,
            ![pos + 5] = v[3] % 256, ![pos + 6] = v[3] \div 256,
            ![pos + 7] = v[4] % 256, ![pos + 8] = v[4] \div 256]]

(* copy(m[b][pos:], bytes): copies what fits, panics when pos is beyond    *)
(* the buffer.                                                             *)
RECURSIVE CopyFrom(_, _, _, _, _)
CopyFrom(d, pos, bytes, i, n) ==
    IF i > n THEN d
    ELSE CopyFrom([d EXCEPT ![pos + i] = bytes[i]], pos, bytes, i + 1, n)

Min(a, b) == IF a < b THEN a ELSE b

CopyBytes(m, b, pos, bytes) ==
    IF ~m.ok THEN m
    ELSE IF pos = PANIC \/ bytes = NoBytes \/ pos > DataLen THEN Panic(m)
    ELSE [m EXCEPT ![b] = CopyFrom(@, pos, bytes, 1, Min(Len(bytes), DataLen - pos))]

(* SetHeader: both PutUint16 calls write at the start of n.Data.           *)
SetHeader(m, b, btype, nkeys) ==
    PutUint16(PutUint16(m, b, 0, btype), b, 0, nkeys)

SetPtr(m, b, idx, val) ==
    IF ~m.ok THEN m
    ELSE IF AssertFails(idx < NKeys(m[b])) THEN Panic(m)
    ELSE PutUint64(m, b, U16(HEADER + 8 * idx), val)

SetOffset(m, b, idx, offset) ==
    IF ~m.ok THEN m
    ELSE PutUint16(m, b, OffsetPos(m[b], idx), offset)

----------------------------------------------------------------------------
(* Node Builder.                                                           *)

(* The pointer loop of NodeAppendRange, from i on.                         *)
RECURSIVE AppendPtrs(_, _, _, _, _)
AppendPtrs(m, dstNew, srcOld, n, i) ==
    IF i >= n \/ ~m.ok THEN m
    ELSE AppendPtrs(SetPtr(m, "new", U16(dstNew + i), GetPtr(m.old, U16(srcOld + i))),
                    dstNew, srcOld, n, i + 1)

(* The offset loop of NodeAppendRange, from i on.                          *)
RECURSIVE AppendOffsets(_, _, _, _, _, _, _)
AppendOffsets(m, dstNew, srcOld, n, dstBegin, srcBegin, i) ==
    IF i > n \/ ~m.ok THEN m
    ELSE LET off == GetOffset(m.old, U16(srcOld + i))
             offset == IF off = PANIC THEN PANIC ELSE U16(dstBegin + off - srcBegin)
         IN  AppendOffsets(
                 IF off = PANIC THEN Panic(m)
                 ELSE SetOffset(m, "new", U16(dstNew + i), offset),
                 dstNew, srcOld, n, dstBegin, srcBegin, i + 1)

(* old.Data[begin:end].                                                    *)
Range(d, begin, end) ==
    IF begin = PANIC \/ end = PANIC \/ begin > end \/ end > DataLen THEN NoBytes
    ELSE [i \in 1..(end - begin) |-> At(d, begin + i - 1)]

(* AppendCopies with the key/value bytes copied into old.                  *)
AppendCopiesIntoOld(m, dstNew, srcOld, n) ==
    LET m1 == AppendPtrs(m, dstNew, srcOld, n, 0)
        dstBegin == GetOffset(m1.new, dstNew)
        srcBegin == GetOffset(m1.old, srcOld)
        m2 == IF ~m1.ok THEN m1
              ELSE IF dstBegin = PANIC \/ srcBegin = PANIC THEN Panic(m1)
              ELSE AppendOffsets(m1, dstNew, srcOld, n, dstBegin, srcBegin, 1)
    IN  IF ~m2.ok THEN m2
        ELSE CopyBytes(m2, "old", KVPos(m2.new, dstNew),
                       Range(m2.old, KVPos(m2.old, srcOld), KVPos(m2.old, U16(srcOld + n))))

(* AppendCopies with the offsets not re-based on the source's first one.   *)
AppendCopiesNoRebase(m, dstNew, srcOld, n) ==
    LET m1 == AppendPtrs(m, dstNew, srcOld, n, 0)
        dstBegin == GetOffset(m1.new, dstNew)
        m2 == IF ~m1.ok THEN m1
              ELSE IF dstBegin = PANIC THEN Panic(m1)
              ELSE AppendOffsets(m1, dstNew, srcOld, n, dstBegin, 0, 1)
    IN  IF ~m2.ok THEN m2
        ELSE CopyBytes(m2, "new", KVPos(m2.new, dstNew),
                       Range(m2.old, KVPos(m2.old, srcOld), KVPos(m2.old, U16(srcOld + n))))

(* AppendCopies with the key/value bytes copied to the first record.       *)
AppendCopiesAtStart(m, dstNew, srcOld, n) ==
    LET m1 == AppendPtrs(m, dstNew, srcOld, n, 0)
        dstBegin == GetOffset(m1.new, dstNew)
        srcBegin == GetOffset(m1.old, srcOld)
        m2 == IF ~m1.ok THEN m1
              ELSE IF dstBegin = PANIC \/ srcBegin = PANIC THEN Panic(m1)
              ELSE AppendOffsets(m1, dstNew, srcOld, n, dstBegin, srcBegin, 1)
    IN  IF ~m2.ok THEN m2
        ELSE CopyBytes(m2, "new", KVPos(m2.new, 0),
                       Range(m2.old, KVPos(m2.old, srcOld), KVPos(m2.old, U16(srcOld + n))))

(* The three copies of NodeAppendRange, once its assertions have passed.   *)
AppendCopies(m, dstNew, srcOld, n) ==
    LET m1 == AppendPtrs(m, dstNew, srcOld, n, 0)
        dstBegin == GetOffset(m1.new, dstNew)
        srcBegin == GetOffset(m1.old, srcOld)
        m2 == IF ~m1.ok THEN m1
              ELSE IF dstBegin = PANIC \/ srcBegin = PANIC THEN Panic(m1)
              ELSE AppendOffsets(m1, dstNew, srcOld, n, dstBegin, srcBegin, 1)
    IN  IF ~m2.ok THEN m2
        ELSE CopyBytes(m2, "new", KVPos(m2.new, dstNew),
                       Range(m2.old, KVPos(m2.old, srcOld), KVPos(m2.old, U16(srcOld + n))))

NodeAppendRange(m, dstNew, srcOld, n) ==
    IF ~m.ok THEN m
    ELSE IF AssertFails(U16(srcOld + n) <= NKeys(m.old)) THEN Panic(m)
    ELSE IF AssertFails(U16(dstNew + n) <= NKeys(m.new)) THEN Panic(m)
    ELSE IF n = 0 THEN m
    ELSE AppendCopies(m, dstNew, srcOld, n)

NodeAppendKV(m, idx, ptr, key, val) ==
    LET m1 == SetPtr(m, "new", idx, ptr)
        pos == KVPos(m1.new, idx)
        m2 == IF ~m1.ok THEN m1
              ELSE IF pos = PANIC \/ pos > DataLen THEN Panic(m1)
              ELSE PutUint16(m1, "new", pos, U16(Len(key)))
        m3 == PutUint16(m2, "new", U16(pos + 2), U16(Len(val)))
        m4 == CopyBytes(m3, "new", U16(pos + 4), key)
        m5 == CopyBytes(m4, "new", U16(pos + 4 + U16(Len(key))), val)
        off == GetOffset(m5.new, idx)
    IN  IF ~m5.ok THEN m5
        ELSE IF off = PANIC THEN Panic(m5)
        ELSE SetOffset(m5, "new", U16(idx + 1), U16(off + 4 + U16(Len(key) + Len(val))))

LeafInsert(m, idx, key, val) ==
    LET m1 == SetHeader(m, "new", BNODE_BLEAF, U16(NKeys(m.old) + 1))
        m2 == NodeAppendRange(m1, 0, 0, idx)
        m3 == IF ~m2.ok THEN m2 ELSE NodeAppendKV(m2, idx, ZeroPtr, key, val)
    IN  NodeAppendRange(m3, U16(idx + 1), idx, U16(NKeys(m3.old) - idx))

----------------------------------------------------------------------------
(* Tree Navigator.                                                         *)

(* bytes.Compare(a, b), from byte i on: -1, 0 or 1.                        *)
RECURSIVE CompareFrom(_, _, _)
CompareFrom(a, b, i) ==
    IF i > Len(a) /\ i > Len(b) THEN 0
    ELSE IF i > Len(a) THEN 0 - 1
    ELSE IF i > Len(b) THEN 1
    ELSE IF a[i] < b[i] THEN 0 - 1
    ELSE IF a[i] > b[i] THEN 1
    ELSE CompareFrom(a, b, i + 1)

Compare(a, b) == CompareFrom(a, b, 1)

(* LookUpLoop taking a key only when it is below the search key.           *)
RECURSIVE LookUpLoopBelow(_, _, _, _, _)
LookUpLoopBelow(d, key, i, found, cmps) ==
    IF ~(i < NKeys(d)) THEN [found |-> found, cmps |-> cmps, ok |-> TRUE]
    ELSE LET k == GetKey(d, i)
             cmp == Compare(k, key)
         IN  IF k = NoBytes THEN [found |-> found, cmps |-> cmps, ok |-> FALSE]
             ELSE IF cmp >= 0
                  THEN [found |-> found, cmps |-> cmps \cup {i}, ok |-> TRUE]
                  ELSE LookUpLoopBelow(d, key, U16(i + 1), i, cmps \cup {i})

(* The loop of NodeLookUpLE, from i on: the index found, the indices whose *)
(* keys were compared, and whether a read panicked.                        *)
RECURSIVE LookUpLoop(_, _, _, _, _)
LookUpLoop(d, key, i, found, cmps) ==
    IF ~(i < NKeys(d)) THEN [found |-> found, cmps |-> cmps, ok |-> TRUE]
    ELSE LET k == GetKey(d, i)
             cmp == Compare(k, key)
         IN  IF k = NoBytes THEN [found |-> found, cmps |-> cmps, ok |-> FALSE]
             ELSE IF cmp >= 0
                  THEN [found |-> IF cmp <= 0 THEN i ELSE found,
                        cmps |-> cmps \cup {i}, ok |-> TRUE]
                  ELSE LookUpLoop(d, key, U16(i + 1),
                                  IF cmp <= 0 THEN i ELSE found, cmps \cup {i})

NodeLookUpLE(d, key) ==
    LET r == LookUpLoop(d, key, 1, 0, {})
    IN  IF r.ok THEN r.found ELSE PANIC

----------------------------------------------------------------------------
(* The nodes and the arguments the calls are made with.                    *)

(* The bytes keys are made of, and the byte values are made of.            *)
KeyBytes == {1, 2}
ValBytes == {9}

NavKeys == UNION {[1..l -> KeyBytes] : l \in 0..MaxKeyLen}

(* The builders are driven with one key of each length from 1 on.          *)
BuildKeys == {k \in NavKeys : Len(k) >= 1 /\ \A i \in 1..Len(k) : k[i] = 2}

(* A leaf entry has a value and no pointer, an internal entry a pointer    *)
(* and no value.                                                           *)
PtrOf(k) == [SomePtr EXCEPT ![1] = 772 + Len(k)]

LeafEntry(k, v) == [ptr |-> ZeroPtr, key |-> k, val |-> v]

InternalEntry(k) == [ptr |-> PtrOf(k), key |-> k, val |-> <<>>]

(* The value a builder's leaf entry pairs with key k: the longest one for  *)
(* the shortest key, the empty one for the others.                         *)
ValOf(k) == [i \in 1..(IF Len(k) = 1 THEN MaxValLen ELSE 0) |-> CHOOSE v \in ValBytes : TRUE]

BuildLeafEntries == {LeafEntry(k, ValOf(k)) : k \in BuildKeys}

BuildEntries ==
    BuildLeafEntries \cup {InternalEntry(k) : k \in {x \in BuildKeys : Len(x) = 1}}

(* The strictly ascending key lists of at most max keys.                   *)
RECURSIVE SortedSeq(_)
SortedSeq(S) ==
    IF S = {} THEN <<>>
    ELSE LET lo == CHOOSE x \in S : \A y \in S : Compare(x, y) <= 0
         IN  <<lo>> \o SortedSeq(S \ {lo})

KeyLists(keys, max) ==
    {SortedSeq(S) : S \in {T \in SUBSET keys : Cardinality(T) <= max}}

(* A buffer handed in with key count nkeys in bytes 2..3 and zero bytes    *)
(* elsewhere.  SetHeader leaves bytes 2..3 alone, so the key count of a    *)
(* node is the one its buffer came with: 0 for a fresh buffer.             *)
PresetData(btype, nkeys) ==
    [ZeroData EXCEPT ![1] = btype % 256, ![2] = btype \div 256,
                     ![3] = nkeys % 256, ![4] = nkeys \div 256]

(* A well-formed node as the page store returns it: the entries es laid    *)
(* out in slot order in a buffer whose header holds btype and Len(es).     *)
RECURSIVE FillFrom(_, _, _)
FillFrom(m, es, i) ==
    IF i > Len(es) THEN m
    ELSE FillFrom(NodeAppendKV(m, i - 1, es[i].ptr, es[i].key, es[i].val), es, i + 1)

MkNode(btype, es) ==
    FillFrom(Machine(PresetData(btype, Len(es)), ZeroData), es, 1).new

LeafNode(ks) ==
    MkNode(BNODE_BLEAF, [i \in 1..Len(ks) |-> LeafEntry(ks[i], ValOf(ks[i]))])

InternalNode(ks) ==
    MkNode(BNODE_BNODE, [i \in 1..Len(ks) |-> InternalEntry(ks[i])])

(* The source nodes of the builders hold the first keys of BuildKeys.      *)
BuildLists == {SortedSeq({k \in BuildKeys : Len(k) <= l}) : l \in 0..MaxOldKeys}

BuildNodes == {LeafNode(ks) : ks \in BuildLists} \cup {InternalNode(ks) : ks \in BuildLists}

NavLists == KeyLists(NavKeys, MaxNavKeys)

NavNodes == {LeafNode(ks) : ks \in NavLists} \cup {InternalNode(ks) : ks \in NavLists}

(* The entry a node holds at slot i, as the accessors decode it.           *)
EntryAt(d, i) == [ptr |-> GetPtr(d, i), key |-> GetKey(d, i), val |-> GetVal(d, i)]

Entries(d) == [i \in 1..NKeys(d) |-> EntryAt(d, i - 1)]

----------------------------------------------------------------------------
(* The state machine: calls of the package's functions on new and old.     *)

Call(op, i, j, n, e, res, out, cmps) ==
    [op |-> op, i |-> i, j |-> j, n |-> n, ptr |-> e.ptr, key |-> e.key, val |-> e.val,
     res |-> res, out |-> out, cmps |-> cmps, fresh |-> new = ZeroData]

NoEntry == [ptr |-> ZeroPtr, key |-> <<>>, val |-> <<>>]

NoCall == Call("none", 0, 0, 0, NoEntry, 0, <<>>, {})

Fill(slot, e) == [slot |-> slot, ptr |-> e.ptr, key |-> e.key, val |-> e.val]

InitCommon ==
    /\ ok = TRUE
    /\ call = NoCall
    /\ fills = <<>>
    /\ hdr = 0 - 1
    /\ ncalls = 0

(* The builders: a source node and a destination buffer.                   *)
Init ==
    /\ old \in BuildNodes
    /\ new \in {PresetData(0, n) : n \in 0..MaxNKeys}
    /\ InitCommon

(* The readers: a node of the page store and a fresh buffer for inserts.   *)
InitNav ==
    /\ old \in NavNodes
    /\ new = ZeroData
    /\ InitCommon

Result(m) ==
    /\ new' = m.new
    /\ old' = m.old
    /\ ok' = m.ok
    /\ ncalls' = ncalls + 1

CanCall == ok /\ ncalls < MaxCalls

(* The header of a node is set before its slots are filled.                *)
DoSetHeader(btype, nkeys) ==
    /\ CanCall
    /\ fills = <<>>
    /\ Result(SetHeader(Machine(new, old), "new", btype, nkeys))
    /\ call' = Call("SetHeader", btype, nkeys, 0, NoEntry, 0, <<>>, {})
    /\ hdr' = nkeys
    /\ UNCHANGED fills

DoNodeAppendKV(idx, e) ==
    /\ CanCall
    /\ Result(NodeAppendKV(Machine(new, old), idx, e.ptr, e.key, e.val))
    /\ call' = Call("NodeAppendKV", idx, 0, 1, e, 0, <<>>, {})
    /\ fills' = Append(fills, Fill(idx, e))
    /\ UNCHANGED hdr

DoNodeAppendRange(dstNew, srcOld, n) ==
    /\ CanCall
    /\ Result(NodeAppendRange(Machine(new, old), dstNew, srcOld, n))
    /\ call' = Call("NodeAppendRange", dstNew, srcOld, n, NoEntry, 0, <<>>, {})
    /\ fills' = IF srcOld + n <= NKeys(old)
                THEN fills \o [t \in 1..n |-> Fill(dstNew + t - 1, EntryAt(old, srcOld + t - 1))]
                ELSE fills
    /\ UNCHANGED hdr

(* The entries LeafInsert is to lay out: old[0..idx), e, old[idx..).       *)
Inserted(es, idx, e) ==
    [t \in 1..(Len(es) + 1) |->
        IF t <= idx THEN es[t] ELSE IF t = idx + 1 THEN e ELSE es[t - 1]]

DoLeafInsert(idx, key, val) ==
    /\ CanCall
    /\ Result(LeafInsert(Machine(new, old), idx, key, val))
    /\ call' = Call("LeafInsert", idx, 0, NKeys(old), LeafEntry(key, val), 0, <<>>, {})
    /\ fills' = IF idx <= NKeys(old)
                THEN LET es == Inserted(Entries(old), idx, LeafEntry(key, val))
                     IN  fills \o [t \in 1..Len(es) |-> Fill(t - 1, es[t])]
                ELSE fills
    /\ UNCHANGED hdr

Next ==
    \/ \E btype \in {BNODE_BNODE, BNODE_BLEAF}, nkeys \in 0..MaxNKeys :
            DoSetHeader(btype, nkeys)
    \/ \E idx \in 0..MaxNKeys, e \in BuildEntries : DoNodeAppendKV(idx, e)
    \/ \E dstNew \in 0..MaxNKeys, srcOld \in 0..MaxOldKeys :
            \E n \in 0..(MaxOldKeys + 1 - srcOld) : DoNodeAppendRange(dstNew, srcOld, n)
    \/ \E idx \in 0..MaxOldKeys, e \in BuildLeafEntries :
            DoLeafInsert(idx, e.key, e.val)

Spec == Init /\ [][Next]_vars

(* The readers and the insert: a lookup, a key or value read, and an       *)
(* insert of an absent key at the slot after the navigator's result, into  *)
(* a fresh buffer; the leaf built becomes the node of the next call.  A    *)
(* read changes no buffer, so a run ends with its first read.              *)
CanRead == ok /\ call.op \in {"none", "Insert"}

DoNodeLookUpLE(key) ==
    /\ CanRead
    /\ LET r == LookUpLoop(old, key, 1, 0, {})
       IN  /\ call' = Call("NodeLookUpLE", 0, 0, 0, [NoEntry EXCEPT !.key = key],
                           NodeLookUpLE(old, key), <<>>, r.cmps)
           /\ ok' = r.ok
    /\ UNCHANGED <<new, old, fills, hdr, ncalls>>

DoGetKey(idx) ==
    /\ CanRead
    /\ call' = Call("GetKey", idx, 0, 0, NoEntry, 0, GetKey(old, idx), {})
    /\ ok' = (GetKey(old, idx) # NoBytes)
    /\ UNCHANGED <<new, old, fills, hdr, ncalls>>

DoGetVal(idx) ==
    /\ CanRead
    /\ call' = Call("GetVal", idx, 0, 0, NoEntry, 0, GetVal(old, idx), {})
    /\ ok' = (GetVal(old, idx) # NoBytes)
    /\ UNCHANGED <<new, old, fills, hdr, ncalls>>

HasKey(d, key) == \E i \in 0..(NKeys(d) - 1) : GetKey(d, i) = key

DoInsert(key, val) ==
    /\ CanRead
    /\ new = ZeroData
    /\ BType(old) = BNODE_BLEAF
    /\ NKeys(old) <= MaxNavKeys
    /\ ~HasKey(old, key)
    /\ LET idx == U16(NodeLookUpLE(old, key) + 1)
           m == LeafInsert(Machine(new, old), idx, key, val)
       IN  /\ call' = Call("Insert", idx, 0, NKeys(old), LeafEntry(key, val), 0, <<>>, {})
           /\ ok' = m.ok
           /\ old' = IF m.ok THEN m.new ELSE m.old
           /\ new' = IF m.ok THEN ZeroData ELSE m.new
    /\ UNCHANGED <<fills, hdr, ncalls>>

NextNav ==
    \/ \E key \in NavKeys : DoNodeLookUpLE(key)
    \/ \E idx \in 0..(MaxNavKeys + 1) : DoGetKey(idx)
    \/ \E idx \in 0..(MaxNavKeys + 1) : DoGetVal(idx)
    \/ \E key \in NavKeys : DoInsert(key, ValOf(key))

SpecNav == InitNav /\ [][NextNav]_vars

----------------------------------------------------------------------------
(* Vocabulary of the properties.                                           *)

IsCall(op) == call.op = op

(* The fills went slot 0, 1, 2, ... once each.                             *)
Ascending(f) == \A t \in 1..Len(f) : f[t].slot = t - 1

Written(f) == {f[t].slot : t \in 1..Len(f)}

(* The entry last passed in for a slot.                                    *)
LastFill(f, slot) ==
    f[CHOOSE t \in 1..Len(f) : f[t].slot = slot /\ \A u \in (t + 1)..Len(f) : f[u].slot # slot]

RecordSize(e) == 4 + Len(e.key) + Len(e.val)

RECURSIVE SumSizes(_, _)
SumSizes(f, S) ==
    IF S = {} THEN 0
    ELSE LET x == CHOOSE y \in S : TRUE
         IN  RecordSize(LastFill(f, x)) + SumSizes(f, S \ {x})

Ordered(d) ==
    \A i \in 0..(NKeys(d) - 2) :
        /\ GetKey(d, i) # NoBytes
        /\ GetKey(d, i + 1) # NoBytes
        /\ Compare(GetKey(d, i), GetKey(d, i + 1)) < 0

(* The last call set the header or passed entries of its own or of old.   *)
LastCallBuilds ==
    \/ IsCall("SetHeader")
    \/ IsCall("NodeAppendKV")
    \/ IsCall("NodeAppendRange") /\ call.n >= 1 /\ call.j + call.n <= NKeys(old)

(* The preconditions of NodeAppendRange, for the call just made.           *)
RangePre == call.j + call.n <= NKeys(old) /\ call.i + call.n <= NKeys(new)

----------------------------------------------------------------------------
(* C1: after SetHeader(btype, nkeys), BType() returns btype and NKeys()    *)
(* returns nkeys.                                                          *)
C1_HeaderRoundTrip ==
    IsCall("SetHeader") => BType(new) = call.i /\ NKeys(new) = call.j

(* C2: LeafInsert into a fresh zero-filled buffer, from a leaf old with k  *)
(* entries and with idx <= k, completes and leaves new a leaf of k + 1     *)
(* entries: old[0..idx), then (key, val) with pointer 0, then old[idx..k). *)
C2_LeafInsertBuilds ==
    (IsCall("LeafInsert") /\ call.fresh /\ BType(old) = BNODE_BLEAF /\ call.i <= call.n)
        => /\ ok
           /\ BType(new) = BNODE_BLEAF
           /\ NKeys(new) = call.n + 1
           /\ Entries(new) = Inserted(Entries(old), call.i, LeafEntry(call.key, call.val))

(* C3: a node whose header was set to key count n and whose slots 0..n-1   *)
(* were then filled in ascending order by NodeAppendKV and NodeAppendRange *)
(* reads back, for every slot, the key and value bytes passed in for it.   *)
C3_RoundTrip ==
    (hdr >= 0 /\ Ascending(fills) /\ Len(fills) = hdr /\ LastCallBuilds)
        => /\ ok
           /\ \A t \in 1..hdr :
                /\ GetKey(new, t - 1) = fills[t].key
                /\ GetVal(new, t - 1) = fills[t].val

(* C4: on a node with strictly ascending keys NodeLookUpLE returns the     *)
(* largest index whose key is <= the search key, 0 when there is none, and *)
(* never compares the key at index 0.                                      *)
C4_LookUpLE ==
    (IsCall("NodeLookUpLE") /\ Ordered(old))
        => LET le == {i \in 0..(NKeys(old) - 1) : Compare(GetKey(old, i), call.key) <= 0}
           IN  /\ call.res = IF le = {} THEN 0 ELSE CHOOSE i \in le : \A j \in le : j <= i
               /\ 0 \notin call.cmps

C4_Witness ==
    /\ IsCall("NodeLookUpLE")
    /\ NKeys(old) = 3
    /\ call.res = 1
    /\ call.cmps = {1, 2}

(* C5: GetKey(i) and GetVal(i) with i >= key count, i = key count          *)
(* included, end in the out-of-bounds failure and return no bytes.         *)
C5_ReadBeyondCount ==
    ((IsCall("GetKey") \/ IsCall("GetVal")) /\ call.i >= NKeys(old))
        => call.out = NoBytes

(* C6: LeafInsert and NodeAppendRange leave every byte of old unchanged,   *)
(* whether they complete or stop at an assertion failure.                  *)
C6_OldUntouched ==
    [][call'.op \in {"LeafInsert", "NodeAppendRange"} => old' = old]_vars

C6_Witness ==
    /\ IsCall("NodeAppendRange")
    /\ ok
    /\ call.n = 2
    /\ new # PresetData(0, NKeys(new))

(* C7: an insert of an absent key by LeafInsert at the slot after the      *)
(* navigator's result yields a leaf with one more key whose keys are       *)
(* strictly ascending.  Stated for a leaf that is not empty and a key      *)
(* above its first key, where that slot is the key's sorted position.      *)
C7_InsertKeepsOrder ==
    (IsCall("Insert") /\ call.n >= 1 /\ Compare(GetKey(old, 0), call.key) < 0)
        => ok /\ NKeys(old) = call.n + 1 /\ Ordered(old)

(* C8, as stated: a node with key count 0 has Nbyte 4, and a node whose n  *)
(* slots were all filled by the builders has Nbyte 4 + 8n + 2n + the sum   *)
(* of 4 + key_len + val_len over its entries, when that is <= 4096.        *)
C8_NbyteAllFilled ==
    LET n == NKeys(new)
        size == HEADER + 8 * n + 2 * n + SumSizes(fills, 0..(n - 1))
    IN  (ok /\ Written(fills) = 0..(n - 1) /\ size <= BTREE_PAGE_SIZE)
            => Nbyte(new) = size

(* C8, amended: the same for a node whose n slots were filled once each,   *)
(* in ascending slot order.                                                *)
C8_NbyteFilledInOrder ==
    LET n == NKeys(new)
        size == HEADER + 8 * n + 2 * n + SumSizes(fills, 0..(n - 1))
    IN  (ok /\ Ascending(fills) /\ Len(fills) = n /\ size <= BTREE_PAGE_SIZE)
            => Nbyte(new) = size

C8_Witness ==
    /\ ok
    /\ NKeys(new) = 3
    /\ Ascending(fills)
    /\ Len(fills) = 3
    /\ IsCall("NodeAppendKV")

(* C9: a NodeAppendRange call whose preconditions hold completes with      *)
(* new.offset(dst+t) = new.offset(dst) + old.offset(src+t) -               *)
(* old.offset(src) for t in 1..n, and with the pointer, key and value of   *)
(* new slot dst+t equal to those of old slot src+t for t in 0..n-1.        *)
C9_AppendRangeCopies ==
    (IsCall("NodeAppendRange") /\ RangePre)
        => /\ ok
           /\ \A t \in 1..call.n :
                GetOffset(new, call.i + t) =
                    GetOffset(new, call.i) + GetOffset(old, call.j + t)
                        - GetOffset(old, call.j)
           /\ \A t \in 0..(call.n - 1) :
                /\ EntryAt(new, call.i + t) = EntryAt(old, call.j + t)
                /\ GetKey(new, call.i + t) # NoBytes

C9_Witness ==
    /\ IsCall("NodeAppendRange")
    /\ RangePre
    /\ ok
    /\ call.n = 1
    /\ call.j = 1
    /\ GetOffset(new, call.i) > 0

(* What C10 keeps: the header, and the pointer, key and value of every     *)
(* slot below dst that was written before the call.                        *)
FrameKept ==
    /\ BType(new') = BType(new)
    /\ NKeys(new') = NKeys(new)
    /\ \A s \in Written(fills) : s < call'.i => EntryAt(new', s) = EntryAt(new, s)

RangePreNext == call'.j + call'.n <= NKeys(old) /\ call'.i + call'.n <= NKeys(new)

(* C10, as stated: a NodeAppendRange call whose preconditions hold leaves  *)
(* new unchanged when n = 0, and otherwise keeps the header and every slot *)
(* below dst that was written before the call.                             *)
C10_AppendRangeFrame ==
    [][(call'.op = "NodeAppendRange" /\ RangePreNext)
            => IF call'.n = 0 THEN new' = new ELSE FrameKept]_vars

(* C10, amended: the same when the slots of new were filled once each in   *)
(* ascending order from slot 0 and dst is at most the number filled.       *)
C10_AppendRangeFrameInOrder ==
    [][(call'.op = "NodeAppendRange" /\ RangePreNext
            /\ Ascending(fills) /\ call'.i <= Len(fills))
            => IF call'.n = 0 THEN new' = new ELSE FrameKept]_vars

C10_Witness ==
    /\ IsCall("NodeAppendRange")
    /\ ok
    /\ call.n >= 1
    /\ call.i >= 1
    /\ Ascending(fills)
    /\ Len(fills) = call.i + call.n

=============================================================================
